---- MODULE Spec2Model ----
(***************************************************************************)
(* Release monitor (monitor/run.js, monitor/lib/cache.js, monitor/slack.js) *)
(* as a state machine: one process runs main() again and again against the  *)
(* cache file cache/state.json.                                             *)
(*                                                                          *)
(* Values.  A JavaScript / JSON value that the cache file can hold is a     *)
(* record [t, initialized, hasSources, sources]:                            *)
(*   t            "null" (the JSON value null), "scalar" (a number, string  *)
(*                or boolean) or "object";                                  *)
(*   initialized  "missing" (no such property: undefined), "false", "true"; *)
(*   hasSources   whether the object has a sources property;                *)
(*   sources      the sources object as the sequence of its entries in      *)
(*                property (insertion) order, each entry                    *)
(*                [id, hasSeenIds, seenIds, itemCount, latestItem].         *)
(* The timestamps lastRun / lastUpdated are left out: nothing reads them    *)
(* but the log.  An item is [id, source]; title, url, severity ... are not  *)
(* read by the cache or by the orchestration.                               *)
(***************************************************************************)
EXTENDS Integers, Sequences, FiniteSets, TLC

\* Longest scored batch of one run.
MaxBatch == 2

SourceIds == {"A", "B"}
\* The items the sources can list: x1 and x2 from A, and x2 also from B
\* (fetchers.js gives the same link the same id whatever the source).
Items ==
  { [id |-> "x1", source |-> "A"],
    [id |-> "x2", source |-> "A"],
    [id |-> "x2", source |-> "B"] }

RECURSIVE SeqsUpTo(_, _)
SeqsUpTo(S, n) ==
  IF n = 0 THEN { <<>> }
  ELSE LET shorter == SeqsUpTo(S, n - 1)
       IN  shorter \cup { Append(s, x) : s \in shorter, x \in S }

\* Every scored batch scoreAllItems can return, up to MaxBatch items.
Batches == SeqsUpTo(Items, MaxBatch)

Range(s) == { s[i] : i \in DOMAIN s }

IdsOf(items) == { items[i].id : i \in DOMAIN items }

(***************************************************************************)
(* cache.js                                                                 *)
(***************************************************************************)

NoValue == [t |-> "null", initialized |-> "missing", hasSources |-> FALSE, sources |-> <<>>]

ScalarValue == [t |-> "scalar", initialized |-> "missing", hasSources |-> FALSE, sources |-> <<>>]

\* The object loadState returns when the file is absent or does not parse.
DefaultState == [t |-> "object", initialized |-> "false", hasSources |-> TRUE, sources |-> <<>>]

\* JSON.stringify(state, null, 2) written to the file: the text of the value.
\* Booleans, strings, arrays and plain objects keep their structure, and a
\* property that is absent stays absent.
JSONstringify(value) == [kind |-> "text", parses |-> TRUE, val |-> value]

AbsentFile == [kind |-> "absent", parses |-> FALSE, val |-> NoValue]

\* A file whose text is not JSON (also what a write that fails part-way leaves).
GarbageFile == [kind |-> "text", parses |-> FALSE, val |-> NoValue]

\* A loadState that never reads the file.
loadStateNeverReads(file) == DefaultState

\* loadState(): the default when the file is absent, JSON.parse of its text,
\* and the default again when JSON.parse throws.
loadState(file) ==
  IF file.kind = "absent" THEN DefaultState
  ELSE IF file.parses THEN file.val
  ELSE DefaultState

\* The ids the forEach over Object.values(previousState.sources) collects.
SeenIdsOf(state) ==
  UNION { IF state.sources[i].hasSeenIds THEN Range(state.sources[i].seenIds) ELSE {}
          : i \in DOMAIN state.sources }

IsNew(seen, item) == item.id \notin seen

\* A getNewItems that looks at the seenIds of the first source only.
getNewItemsFirstSource(scoredItems, previousState) ==
  IF previousState.t = "null"
  THEN [threw |-> TRUE, newItems |-> <<>>, isFirstRun |-> FALSE]
  ELSE IF previousState.initialized # "true"
  THEN [threw |-> FALSE, newItems |-> <<>>, isFirstRun |-> TRUE]
  ELSE IF ~previousState.hasSources
  THEN [threw |-> TRUE, newItems |-> <<>>, isFirstRun |-> FALSE]
  ELSE LET first == IF previousState.sources = <<>> THEN <<>>
                    ELSE <<previousState.sources[1]>>
           seenIds == SeenIdsOf([previousState EXCEPT !.sources = first])
           NotSeen(item) == IsNew(seenIds, item)
       IN  [threw |-> FALSE,
            newItems |-> SelectSeq(scoredItems, NotSeen),
            isFirstRun |-> FALSE]

\* A getNewItems that takes a state without seen ids for the first run,
\* instead of reading the initialized flag.
getNewItemsNoFlag(scoredItems, previousState) ==
  IF previousState.t = "null"
  THEN [threw |-> TRUE, newItems |-> <<>>, isFirstRun |-> FALSE]
  ELSE IF SeenIdsOf(previousState) = {}
  THEN [threw |-> FALSE, newItems |-> <<>>, isFirstRun |-> TRUE]
  ELSE LET seenIds == SeenIdsOf(previousState)
           NotSeen(item) == IsNew(seenIds, item)
       IN  [threw |-> FALSE,
            newItems |-> SelectSeq(scoredItems, NotSeen),
            isFirstRun |-> FALSE]

\* getNewItems(scoredItems, previousState).  threw: a TypeError leaves the
\* function (a property read of null, Object.values(undefined)).
getNewItems(scoredItems, previousState) ==
  IF previousState.t = "null"
  THEN [threw |-> TRUE, newItems |-> <<>>, isFirstRun |-> FALSE]
  ELSE IF previousState.initialized # "true"
  THEN [threw |-> FALSE, newItems |-> <<>>, isFirstRun |-> TRUE]
  ELSE IF ~previousState.hasSources
  THEN [threw |-> TRUE, newItems |-> <<>>, isFirstRun |-> FALSE]
  ELSE LET seenIds == SeenIdsOf(previousState)
           NotSeen(item) == IsNew(seenIds, item)
       IN  [threw |-> FALSE,
            newItems |-> SelectSeq(scoredItems, NotSeen),
            isFirstRun |-> FALSE]

\* The keys of itemsBySource in insertion order: each source at its first item.
RECURSIVE SourceOrder(_)
SourceOrder(items) ==
  IF items = <<>> THEN <<>>
  ELSE LET n == Len(items)
           before == SourceOrder(SubSeq(items, 1, n - 1))
       IN  IF items[n].source \in Range(before) THEN before
           ELSE Append(before, items[n].source)

ItemsOfSource(items, sourceId) ==
  LET Mine(item) == item.source = sourceId
  IN  SelectSeq(items, Mine)

\* A source entry that records the id of the latest item only.
SourceEntryLatestOnly(sourceId, items) ==
  [id |-> sourceId,
   hasSeenIds |-> TRUE,
   seenIds |-> <<items[1].id>>,
   itemCount |-> Len(items),
   latestItem |-> items[1].id]

SourceEntry(sourceId, items) ==
  [id |-> sourceId,
   hasSeenIds |-> TRUE,
   seenIds |-> [i \in DOMAIN items |-> items[i].id],
   itemCount |-> Len(items),
   latestItem |-> items[1].id]

\* An updateState that marks the cache initialized only once it has items.
updateStateLazyInit(scoredItems) ==
  LET keys == SourceOrder(scoredItems)
  IN  [t |-> "object",
       initialized |-> IF scoredItems = <<>> THEN "false" ELSE "true",
       hasSources |-> TRUE,
       sources |-> [k \in DOMAIN keys |->
                      SourceEntry(keys[k], ItemsOfSource(scoredItems, keys[k]))]]

\* updateState(scoredItems): a fresh snapshot, one entry per source of the batch.
updateState(scoredItems) ==
  LET keys == SourceOrder(scoredItems)
  IN  [t |-> "object",
       initialized |-> "true",
       hasSources |-> TRUE,
       sources |-> [k \in DOMAIN keys |->
                      SourceEntry(keys[k], ItemsOfSource(scoredItems, keys[k]))]]

(***************************************************************************)
(* run.js: main()                                                           *)
(***************************************************************************)

VARIABLES
  stateFile,      \* cache/state.json
  pc,             \* where main() is
  webhookUrl,     \* SLACK_WEBHOOK_URL is set
  dryRun,         \* DRY_RUN === 'true'
  forceNotify,    \* FORCE_NOTIFY === 'true'
  configFile,     \* what config/sources.json holds in this run ("none" between runs)
  sources,        \* ids of the sources loadSources returned
  scoredItems,    \* the scored batch of this run
  previousState,  \* what loadState returned
  loadedFrom,     \* what loadState found: "absent", "text" or "garbage"
  newItems,
  isFirstRun,
  newState,
  saved,          \* saveState returned in this run
  sendCalls,      \* calls of sendNotification in this run
  posted,         \* the alert Slack accepted in this run: "none", "empty", "items"
  errorNotice,    \* sendErrorNotification was called in this run
  failure,        \* what threw into main's catch: "none", "config", "diff", "save", "send"
  lastOutcome,    \* how the previous run ended: "none", "completed", "undelivered", "failed"
  lastIds,        \* ids of the batch the previous run persisted ({} if it persisted none)
  lastUndelivered,\* ids of the items the previous run failed to deliver
  prevIds,        \* the same for the run before the previous one
  everCompleted   \* some earlier run has completed successfully

mainVars == <<stateFile, pc, webhookUrl, dryRun, forceNotify, configFile, sources, scoredItems,
              previousState, loadedFrom, newItems, isFirstRun, newState, saved,
              sendCalls, posted, errorNotice, failure, lastOutcome, lastIds, lastUndelivered,
              prevIds, everCompleted>>

\* fetchUrl (fetchers.js), modelled apart from main(): one call and the calls
\* it makes of itself on redirects.
VARIABLES
  maxRedirectsOption, \* options.maxRedirects of the call: [set, n]
  chain,              \* the server: [cyclic, length], `length` redirects then a 200
  redirectCount,      \* options.redirectCount || 0 of the current call
  requests,           \* https.get / http.get calls made so far
  urlPc               \* "unused", "calling", "waiting", "resolved", "tooMany"

urlVars == <<maxRedirectsOption, chain, redirectCount, requests, urlPc>>

\* fetchUrl is not in use.
UrlUnused ==
  /\ maxRedirectsOption = [set |-> FALSE, n |-> 0]
  /\ chain = [cyclic |-> FALSE, length |-> 0]
  /\ redirectCount = 0
  /\ requests = 0
  /\ urlPc = "unused"

\* matchKeyword (scorer.js) as scoreItem calls it, modelled apart from main().
VARIABLES
  title,     \* item.title (item.description is empty)
  keyword,   \* the keyword of the list that is tried
  matched    \* what matchKeyword returned: "pending", "yes", "no"

matchVars == <<title, keyword, matched>>

MatchUnused == title = "" /\ keyword = "" /\ matched = "unused"

\* scoreItem (scorer.js), modelled apart from main().
VARIABLES
  item,      \* the item: [title, description, version, prerelease]
  source,    \* its source descriptor: [severityHint]
  scoring    \* [called, result]: what scoreItem returned, [severity, reasons, score]

scoreVars == <<item, source, scoring>>

NotScored == [called |-> FALSE, result |-> [severity |-> "", reasons |-> <<>>, score |-> 0]]

ScoreUnused ==
  /\ item = [title |-> "", description |-> "", version |-> "", prerelease |-> FALSE]
  /\ source = [severityHint |-> ""]
  /\ scoring = NotScored

\* fetchAllSources (fetchers.js) and the scoreAllItems (scorer.js) that
\* main() runs on its result, modelled apart from main().
VARIABLES
  concurrency,    \* the width fetchAllSources is called with
  served,         \* what each source's server answers: source id -> kind of response
  waveStart,      \* i of the for loop: index (from 0) of the first source of the wave
  inFlight,       \* ids of the sources whose fetchSource promise is pending
  sourceResults,  \* results: its entries [id, items] in property (insertion) order
  fetchPc,        \* "unused", "loop", "awaiting", "returned", "crashed"
  configured,     \* the sources scoreAllItems is given: [id, category, name, severityHint]
  scoredBatch     \* [done, items]: what scoreAllItems returned

fetchVars == <<concurrency, served, waveStart, inFlight, sourceResults, fetchPc,
               configured, scoredBatch>>

FetchUnused ==
  /\ concurrency = 0
  /\ served = <<>>
  /\ waveStart = 0
  /\ inFlight = {}
  /\ sourceResults = <<>>
  /\ fetchPc = "unused"
  /\ configured = <<>>
  /\ scoredBatch = [done |-> FALSE, items |-> <<>>]

\* fetchHTML (fetchers.js), modelled apart from main(): one call, from the
\* page fetchUrl returned to the items it returns.
VARIABLES
  html,           \* the anchors of the page the link pattern finds, in page order
  cursor,         \* how many of them linkRegex.exec has returned
  links,          \* links
  scrapeNow,      \* ms from the call to the latest Date.now()
  scrapedItems,   \* items
  scrapePc        \* "unused", "matching", "building", "returned"

scrapeVars == <<html, cursor, links, scrapeNow, scrapedItems, scrapePc>>

ScrapeUnused ==
  /\ html = <<>>
  /\ cursor = 0
  /\ links = <<>>
  /\ scrapeNow = 0
  /\ scrapedItems = <<>>
  /\ scrapePc = "unused"

\* The variables of the parts modelled apart from main().
beyondMain == <<urlVars, matchVars, scoreVars, fetchVars, scrapeVars>>

\* main() uses none of them.
BeyondUnused == UrlUnused /\ MatchUnused /\ ScoreUnused /\ FetchUnused /\ ScrapeUnused

vars == <<mainVars, beyondMain>>

env == <<webhookUrl, dryRun, forceNotify>>
history == <<lastOutcome, lastIds, lastUndelivered, prevIds, everCompleted>>

\* What cache/state.json may hold before the monitor ever ran: nothing, text
\* that is not JSON, or JSON that some other hand wrote.
InitialFiles ==
  { AbsentFile,
    GarbageFile,
    JSONstringify(NoValue),
    JSONstringify(ScalarValue),
    JSONstringify([t |-> "object", initialized |-> "missing", hasSources |-> FALSE, sources |-> <<>>]),
    JSONstringify([t |-> "object", initialized |-> "true", hasSources |-> FALSE, sources |-> <<>>]),
    JSONstringify([t |-> "object", initialized |-> "false", hasSources |-> TRUE,
                   sources |-> << [id |-> "A", hasSeenIds |-> TRUE, seenIds |-> <<"x1">>,
                                   itemCount |-> 1, latestItem |-> "x1"] >>]),
    JSONstringify([t |-> "object", initialized |-> "true", hasSources |-> TRUE,
                   sources |-> << [id |-> "A", hasSeenIds |-> FALSE, seenIds |-> <<>>,
                                   itemCount |-> 0, latestItem |-> "x1"] >>]) }

\* The locals of main() before it has run.
NoRunYet ==
  /\ configFile = "none"
  /\ sources = {}
  /\ scoredItems = <<>>
  /\ previousState = NoValue
  /\ loadedFrom = "none"
  /\ newItems = <<>>
  /\ isFirstRun = FALSE
  /\ newState = NoValue
  /\ saved = FALSE
  /\ sendCalls = 0
  /\ posted = "none"
  /\ errorNotice = FALSE
  /\ failure = "none"

Init ==
  /\ stateFile \in InitialFiles
  /\ pc = "idle"
  /\ webhookUrl = FALSE /\ dryRun = FALSE /\ forceNotify = FALSE
  /\ NoRunYet
  /\ lastOutcome = "none"
  /\ lastIds = {}
  /\ lastUndelivered = {}
  /\ prevIds = {}
  /\ everCompleted = FALSE
  /\ BeyondUnused

\* How the run that ends is remembered: it returned, it saved and then
\* failed to deliver, or it failed before it had saved.
OutcomeOf ==
  IF pc = "done" THEN "completed"
  ELSE IF failure = "send" THEN "undelivered"
  ELSE "failed"

\* What config/sources.json can be: absent; text that is not JSON (or the
\* JSON value null); an object without a sources property; an object whose
\* sources is something other than an array; an object with the source list.
ConfigFiles == {"absent", "unparseable", "noSources", "notAList", "ok"}

\* A loadSources that lets text that does not parse pass as an empty list.
loadSourcesLenient(config) ==
  IF config = "absent" THEN [threw |-> TRUE, sources |-> {}]
  ELSE IF config \in {"unparseable", "noSources"} THEN [threw |-> FALSE, sources |-> {}]
  ELSE [threw |-> FALSE, sources |-> SourceIds]

\* loadSources(): throws when config/sources.json is absent or does not
\* parse; config.sources || [] otherwise.
loadSources(config) ==
  IF config \in {"absent", "unparseable"} THEN [threw |-> TRUE, sources |-> {}]
  ELSE IF config = "noSources" THEN [threw |-> FALSE, sources |-> {}]
  ELSE [threw |-> FALSE, sources |-> SourceIds]

\* node run.js: main() reads the environment and loads the configuration
\* (step 1).  sources.filter throws when sources is not an array.
MainStart ==
  /\ pc = "idle"
  /\ \E w \in BOOLEAN, d \in BOOLEAN, f \in BOOLEAN, config \in ConfigFiles :
       LET threw == loadSources(config).threw \/ config = "notAList"
       IN  /\ webhookUrl' = w /\ dryRun' = d /\ forceNotify' = f
           /\ configFile' = config
           /\ sources' = IF threw THEN {} ELSE loadSources(config).sources
           /\ pc' = IF threw THEN "error" ELSE "fetching"
           /\ failure' = IF threw THEN "config" ELSE "none"
  /\ UNCHANGED <<stateFile, scoredItems, previousState, loadedFrom, newItems,
                 isFirstRun, newState, saved, sendCalls, posted, errorNotice, history>>
  /\ UNCHANGED beyondMain

\* The process ends (main returned, or process.exit(1)): its locals are
\* gone, the cache file stays, and the run becomes the previous run.
ProcessEnds ==
  /\ pc \in {"done", "exited"}
  /\ pc' = "idle"
  /\ lastOutcome' = OutcomeOf
  /\ lastIds' = IF saved THEN IdsOf(scoredItems) ELSE {}
  /\ prevIds' = lastIds
  /\ lastUndelivered' = IF OutcomeOf = "undelivered" THEN IdsOf(newItems) ELSE {}
  /\ everCompleted' = (everCompleted \/ pc = "done")
  /\ webhookUrl' = FALSE /\ dryRun' = FALSE /\ forceNotify' = FALSE
  /\ configFile' = "none"
  /\ sources' = {}
  /\ scoredItems' = <<>>
  /\ previousState' = NoValue
  /\ loadedFrom' = "none"
  /\ newItems' = <<>>
  /\ isFirstRun' = FALSE
  /\ newState' = NoValue
  /\ saved' = FALSE
  /\ sendCalls' = 0
  /\ posted' = "none"
  /\ errorNotice' = FALSE
  /\ failure' = "none"
  /\ UNCHANGED stateFile
  /\ UNCHANGED beyondMain

\* Step 4 of main(): loadState, then FORCE_NOTIFY or getNewItems, then the log
\* line that reads previousState.initialized (a TypeError when it is null).
CheckCache(batch, file, force) ==
  LET loaded == loadState(file)
      result == getNewItems(batch, loaded)
  IN  IF force
      THEN [threw |-> loaded.t = "null", newItems |-> batch, isFirstRun |-> FALSE]
      ELSE result

\* A step 6 that forgets the first-run return.
SendsOnFirstRun(first, dry, webhook) ==
  IF dry THEN FALSE ELSE webhook

\* Step 6 of main(): return on a first run; log on a dry run; call
\* sendNotification when there is a webhook; nothing otherwise.
Sends(first, dry, webhook) ==
  IF first THEN FALSE
  ELSE IF dry THEN FALSE
  ELSE webhook

\* fetchAllSources has resolved.  What main() does from there to its next
\* await is one step: scoreAllItems keeps the items of the configured
\* sources (step 3), then step 4.  All three ways on share this part.
Scored(batch) ==
  /\ pc = "fetching"
  /\ \A i \in DOMAIN batch : batch[i].source \in sources
  /\ scoredItems' = batch
  /\ previousState' = loadState(stateFile)
  /\ loadedFrom' = IF stateFile.kind = "absent" THEN "absent"
                   ELSE IF stateFile.parses THEN "text" ELSE "garbage"
  /\ newItems' = CheckCache(batch, stateFile, forceNotify).newItems
  /\ isFirstRun' = CheckCache(batch, stateFile, forceNotify).isFirstRun

\* Step 4 throws: main's catch is entered with the cache untouched.
DiffThrows ==
  /\ \E batch \in Batches :
       /\ Scored(batch)
       /\ CheckCache(batch, stateFile, forceNotify).threw
  /\ pc' = "error"
  /\ failure' = "diff"
  /\ UNCHANGED <<stateFile, env, configFile, sources, newState, saved, sendCalls,
                 posted, errorNotice, history, beyondMain>>

\* Step 5 with saveState writing `snapshot`, then step 6 up to the await of
\* sendNotification or the return.
Saving(batch, snapshot) ==
  /\ Scored(batch)
  /\ ~CheckCache(batch, stateFile, forceNotify).threw
  /\ newState' = snapshot
  /\ stateFile' = JSONstringify(snapshot)
  /\ saved' = TRUE
  /\ IF Sends(isFirstRun', dryRun, webhookUrl)
     THEN pc' = "sending" /\ sendCalls' = sendCalls + 1
     ELSE pc' = "done" /\ UNCHANGED sendCalls
  /\ UNCHANGED <<env, configFile, sources, posted, errorNotice, failure, history,
                 beyondMain>>

\* Steps 5 and 6 with a snapshot that keeps the entries of the previous state.
SaveAndNotifyMerging ==
  \E batch \in Batches :
    LET old == loadState(stateFile)
        new == updateState(batch)
    IN  Saving(batch, [new EXCEPT !.sources = new.sources \o old.sources])

\* Steps 5 and 6 in the other order: nothing is saved before a delivery.
NotifyThenSave ==
  \E batch \in Batches :
    /\ Scored(batch)
    /\ ~CheckCache(batch, stateFile, forceNotify).threw
    /\ newState' = updateState(batch)
    /\ IF Sends(isFirstRun', dryRun, webhookUrl)
       THEN pc' = "sending" /\ sendCalls' = sendCalls + 1 /\ UNCHANGED <<stateFile, saved>>
       ELSE /\ pc' = "done" /\ UNCHANGED sendCalls
            /\ stateFile' = JSONstringify(updateState(batch)) /\ saved' = TRUE
    /\ UNCHANGED <<env, configFile, sources, posted, errorNotice, failure, history,
                 beyondMain>>

\* Steps 5 and 6 with a dry run that leaves the cache file alone.
SaveUnlessDryRun ==
  \E batch \in Batches :
    /\ Scored(batch)
    /\ ~CheckCache(batch, stateFile, forceNotify).threw
    /\ newState' = updateState(batch)
    /\ IF dryRun
       THEN UNCHANGED <<stateFile, saved>>
       ELSE stateFile' = JSONstringify(updateState(batch)) /\ saved' = TRUE
    /\ IF Sends(isFirstRun', dryRun, webhookUrl)
       THEN pc' = "sending" /\ sendCalls' = sendCalls + 1
       ELSE pc' = "done" /\ UNCHANGED sendCalls
    /\ UNCHANGED <<env, configFile, sources, posted, errorNotice, failure, history,
                   beyondMain>>

\* Steps 5 and 6: the snapshot is updateState(scoredItems).
SaveAndNotify == \E batch \in Batches : Saving(batch, updateState(batch))

\* Step 5 when fs.writeFileSync throws: saveState rethrows into main's
\* catch.  The file is as it was (the open failed) or cut short (the write
\* failed after the open truncated it).
SaveFails ==
  /\ \E batch \in Batches :
       /\ Scored(batch)
       /\ ~CheckCache(batch, stateFile, forceNotify).threw
       /\ newState' = updateState(batch)
  /\ stateFile' \in {stateFile, GarbageFile}
  /\ pc' = "error"
  /\ failure' = "save"
  /\ UNCHANGED <<env, configFile, sources, saved, sendCalls, posted, errorNotice,
                 history, beyondMain>>

\* formatMessage: the "no updates" text when stats.total is 0.
formatMessage(items) == IF Len(items) = 0 THEN "empty" ELSE "items"

\* postToSlack resolves: the webhook answered 200.
PostOk ==
  /\ pc = "sending"
  /\ posted' = formatMessage(newItems)
  /\ pc' = "done"
  /\ UNCHANGED <<stateFile, env, configFile, sources, scoredItems, previousState, loadedFrom,
                 newItems, isFirstRun, newState, saved, sendCalls, errorNotice,
                 failure, history, beyondMain>>

\* postToSlack rejects: sendNotification rethrows into main's catch.
PostFails ==
  /\ pc = "sending"
  /\ pc' = "error"
  /\ failure' = "send"
  /\ UNCHANGED <<stateFile, env, configFile, sources, scoredItems, previousState, loadedFrom,
                 newItems, isFirstRun, newState, saved, sendCalls, posted, errorNotice,
                 history, beyondMain>>

\* main's catch: a best-effort error notification, then process.exit(1).
HandleError ==
  /\ pc = "error"
  /\ errorNotice' = (webhookUrl /\ ~dryRun)
  /\ pc' = "exited"
  /\ UNCHANGED <<stateFile, env, configFile, sources, scoredItems, previousState, loadedFrom,
                 newItems, isFirstRun, newState, saved, sendCalls, posted, failure,
                 history, beyondMain>>

Next ==
  \/ MainStart
  \/ DiffThrows
  \/ SaveAndNotify
  \/ SaveFails
  \/ PostOk
  \/ PostFails
  \/ HandleError
  \/ ProcessEnds

Spec == Init /\ [][Next]_vars

\* main() is not running.
MainUnused ==
  /\ stateFile = AbsentFile
  /\ pc = "idle"
  /\ webhookUrl = FALSE /\ dryRun = FALSE /\ forceNotify = FALSE
  /\ NoRunYet
  /\ lastOutcome = "none"
  /\ lastIds = {}
  /\ lastUndelivered = {}
  /\ prevIds = {}
  /\ everCompleted = FALSE

\* What lies outside each of the parts modelled apart, and is unused there.
outsideUrl == <<mainVars, matchVars, scoreVars, fetchVars, scrapeVars>>
outsideMatch == <<mainVars, urlVars, scoreVars, fetchVars, scrapeVars>>
outsideScore == <<mainVars, urlVars, matchVars, fetchVars, scrapeVars>>
outsideFetch == <<mainVars, urlVars, matchVars, scoreVars, scrapeVars>>
outsideScrape == <<mainVars, urlVars, matchVars, scoreVars, fetchVars>>

OutsideUrlUnused == MainUnused /\ MatchUnused /\ ScoreUnused /\ FetchUnused /\ ScrapeUnused
OutsideMatchUnused == MainUnused /\ UrlUnused /\ ScoreUnused /\ FetchUnused /\ ScrapeUnused
OutsideScoreUnused == MainUnused /\ UrlUnused /\ MatchUnused /\ FetchUnused /\ ScrapeUnused
OutsideFetchUnused == MainUnused /\ UrlUnused /\ MatchUnused /\ ScoreUnused /\ ScrapeUnused
OutsideScrapeUnused == MainUnused /\ UrlUnused /\ MatchUnused /\ ScoreUnused /\ FetchUnused

(***************************************************************************)
(* fetchers.js: fetchUrl and its redirects                                  *)
(***************************************************************************)

\* Largest options.maxRedirects a caller passes, and longest redirect chain
\* a server answers with.
MaxOption == 2
MaxChain == 7

\* const maxRedirects = options.maxRedirects || 5
DefaultMaxRedirects == 5

\* options.maxRedirects: not given, or a number 0..MaxOption.
RedirectOptions ==
  { [set |-> FALSE, n |-> 0] } \cup { [set |-> TRUE, n |-> i] : i \in 0..MaxOption }

\* A server: `length` redirects and then a 200, or redirects for ever.
Chains ==
  { [cyclic |-> FALSE, length |-> k] : k \in 0..MaxChain } \cup { [cyclic |-> TRUE, length |-> 0] }

\* option || fallback: the fallback when the option is not given or is 0.
OrDefault(option, fallback) ==
  IF ~option.set \/ option.n = 0 THEN fallback ELSE option.n

\* if (redirectCount >= maxRedirects) reject 'Too many redirects'
LimitReached(count, limit) == count >= limit

\* The answer to the request of the current call is a redirect with a Location.
AnswersRedirect == chain.cyclic \/ redirectCount < chain.length

RedirectInit ==
  /\ OutsideUrlUnused
  /\ maxRedirectsOption \in RedirectOptions
  /\ chain \in Chains
  /\ redirectCount = 0
  /\ requests = 0
  /\ urlPc = "calling"

\* fetchUrl(url, options): the promise executor issues the request.
Request ==
  /\ urlPc = "calling"
  /\ requests' = requests + 1
  /\ urlPc' = "waiting"
  /\ UNCHANGED <<maxRedirectsOption, chain, redirectCount, outsideUrl>>

\* A 301/302/307/308 with a Location under the limit: fetchUrl calls itself
\* with redirectCount + 1 and the same options.
FollowRedirect ==
  /\ urlPc = "waiting"
  /\ AnswersRedirect
  /\ ~LimitReached(redirectCount, OrDefault(maxRedirectsOption, DefaultMaxRedirects))
  /\ redirectCount' = redirectCount + 1
  /\ urlPc' = "calling"
  /\ UNCHANGED <<maxRedirectsOption, chain, requests, outsideUrl>>

\* A redirect at the limit: reject 'Too many redirects'.
RefuseRedirect ==
  /\ urlPc = "waiting"
  /\ AnswersRedirect
  /\ LimitReached(redirectCount, OrDefault(maxRedirectsOption, DefaultMaxRedirects))
  /\ urlPc' = "tooMany"
  /\ UNCHANGED <<maxRedirectsOption, chain, redirectCount, requests, outsideUrl>>

\* A 200 whose body arrives whole: resolve(data), passed up through every
\* caller's .then(resolve).
Resolve ==
  /\ urlPc = "waiting"
  /\ ~AnswersRedirect
  /\ urlPc' = "resolved"
  /\ UNCHANGED <<maxRedirectsOption, chain, redirectCount, requests, outsideUrl>>

RedirectNext ==
  \/ Request
  \/ FollowRedirect
  \/ RefuseRedirect
  \/ Resolve

RedirectSpec == RedirectInit /\ [][RedirectNext]_vars

(***************************************************************************)
(* scorer.js: keywords and matchKeyword                                     *)
(***************************************************************************)

CRITICAL_KEYWORDS ==
  << "security vulnerability", "security issue", "vulnerability", "cve-",
     "remote code execution", "certificate expir", "service disruption", "outage",
     "forced upgrade", "end-of-life", "eol imminent", "critical security", "zero-day",
     "exploit", "malicious", "data breach", "unauthorized access" >>

HIGH_KEYWORDS ==
  << "breaking change", "breaking:", "deprecated", "deprecation", "removal", "removed",
     "required action", "action required", "must upgrade", "must update",
     "major version", "api removal", "pricing change", "price increase",
     "end of support", "migration required", "incompatible", "required update",
     "urgent" >>

MEDIUM_KEYWORDS ==
  << "minor version", "new feature", "enhancement", "improvement", "performance",
     "bug fix", "known issue", "workaround", "recommended update", "update available",
     "patch", "maintenance" >>

LOW_KEYWORDS ==
  << "documentation", "informational", "announce", "note", "preview", "beta", "alpha" >>

\* The characters of JavaScript's \w, and how toLowerCase maps the capitals.
UpperCase ==
  << "A", "B", "C", "D", "E", "F", "G", "H", "I", "J", "K", "L", "M",
     "N", "O", "P", "Q", "R", "S", "T", "U", "V", "W", "X", "Y", "Z" >>

LowerCase ==
  << "a", "b", "c", "d", "e", "f", "g", "h", "i", "j", "k", "l", "m",
     "n", "o", "p", "q", "r", "s", "t", "u", "v", "w", "x", "y", "z" >>

Digits == { "0", "1", "2", "3", "4", "5", "6", "7", "8", "9" }

UpperLetters == Range(UpperCase)

WordChars == UpperLetters \cup Range(LowerCase) \cup Digits \cup { "_" }

\* The small letter of each capital.
LowerOf == [c \in UpperLetters |-> LowerCase[CHOOSE k \in DOMAIN UpperCase : UpperCase[k] = c]]

\* The character of str at position i (1-based).
CharAt(str, i) == SubSeq(str, i, i)

LowerChar(c) == IF c \in UpperLetters THEN LowerOf[c] ELSE c

\* String.prototype.toLowerCase: the string itself when it has no capital.
RECURSIVE toLowerCase(_)
toLowerCase(str) ==
  IF \A i \in 1..Len(str) : CharAt(str, i) \notin UpperLetters THEN str
  ELSE LowerChar(CharAt(str, 1)) \o toLowerCase(SubSeq(str, 2, Len(str)))

\* String.prototype.includes
Includes(str, part) ==
  \E i \in 1..(Len(str) - Len(part) + 1) : SubSeq(str, i, i + Len(part) - 1) = part

\* /[-:]/.test(str)
HasHyphenOrColon(str) == \E i \in 1..Len(str) : CharAt(str, i) \in { "-", ":" }

\* \b between positions i and i + 1 of str (i = 0 is the start, i = Len the
\* end): a word character on exactly one side.
WordBoundary(str, i) ==
  LET before == i >= 1 /\ CharAt(str, i) \in WordChars
      after == i < Len(str) /\ CharAt(str, i + 1) \in WordChars
  IN  before # after

\* new RegExp('\\b' + escaped + '\\b', 'i').test(str): the escaped keyword
\* matches itself, letter case aside, between two word boundaries.
BoundedRegexTest(str, lowerKeyword) ==
  LET lowered == toLowerCase(str)
  IN  \E i \in 1..(Len(str) - Len(lowerKeyword) + 1) :
        /\ SubSeq(lowered, i, i + Len(lowerKeyword) - 1) = lowerKeyword
        /\ WordBoundary(str, i - 1)
        /\ WordBoundary(str, i + Len(lowerKeyword) - 1)

\* A matchKeyword without word boundaries: containment for every keyword.
matchKeywordAnywhere(text, word) == Includes(text, toLowerCase(word))

\* matchKeyword(text, keyword)
matchKeyword(text, word) ==
  LET lowerKeyword == toLowerCase(word)
  IN  IF HasHyphenOrColon(lowerKeyword)
      THEN Includes(text, lowerKeyword)
      ELSE BoundedRegexTest(text, lowerKeyword)

\* The longest title, counted in fragments.
MaxFragments == 3

\* Pieces that titles are put together from: words of the keyword lists,
\* letters that lengthen a word, separators.
Fragments == { "Note", "key", "s", " ", "-", "_", "CVE-", "zero-day", "Bug fix" }

RECURSIVE TitlesUpTo(_)
TitlesUpTo(n) ==
  IF n = 0 THEN { "" }
  ELSE LET shorter == TitlesUpTo(n - 1)
       IN  shorter \cup { t \o f : t \in shorter, f \in Fragments }

\* The keywords scoreItem tries, list after list.
AllKeywords ==
  Range(CRITICAL_KEYWORDS) \cup Range(HIGH_KEYWORDS)
    \cup Range(MEDIUM_KEYWORDS) \cup Range(LOW_KEYWORDS)

MatchInit ==
  /\ OutsideMatchUnused
  /\ title \in TitlesUpTo(MaxFragments)
  /\ keyword \in AllKeywords
  /\ matched = "pending"

\* scoreItem lowercases `${item.title} ${item.description}` and hands it to
\* matchKeyword with a keyword of the lists (the only calls there are).
TryKeyword ==
  /\ matched = "pending"
  /\ matched' = IF matchKeyword(toLowerCase(title \o " "), keyword) THEN "yes" ELSE "no"
  /\ UNCHANGED <<title, keyword, outsideMatch>>

MatchNext == TryKeyword

MatchSpec == MatchInit /\ [][MatchNext]_vars

(***************************************************************************)
(* scorer.js: scoreItem                                                     *)
(***************************************************************************)

SEVERITY_LEVELS == [CRITICAL |-> "critical", HIGH |-> "high", MEDIUM |-> "medium", LOW |-> "low"]

\* The keywords of a list that match the text, in the order of the list.
MatchesOf(text, keywords) == SelectSeq(keywords, LAMBDA word : matchKeyword(text, word))

\* A tier decision that looks at the lists from the bottom up.
BaselineLowestFirst(found, severityHint) ==
  IF Len(found.low) > 0
  THEN [severity |-> SEVERITY_LEVELS.LOW, reasons |-> found.low]
  ELSE IF Len(found.medium) > 0
  THEN [severity |-> SEVERITY_LEVELS.MEDIUM, reasons |-> found.medium]
  ELSE IF Len(found.high) > 0
  THEN [severity |-> SEVERITY_LEVELS.HIGH, reasons |-> found.high]
  ELSE IF Len(found.critical) > 0
  THEN [severity |-> SEVERITY_LEVELS.CRITICAL, reasons |-> found.critical]
  ELSE [severity |-> IF severityHint = "" THEN SEVERITY_LEVELS.LOW ELSE severityHint,
        reasons |-> << "default from source" >>]

\* "Determine severity based on matches": the if / else-if chain, and
\* source.severityHint || LOW when nothing matched ("" is no hint).
Baseline(found, severityHint) ==
  IF Len(found.critical) > 0
  THEN [severity |-> SEVERITY_LEVELS.CRITICAL, reasons |-> found.critical]
  ELSE IF Len(found.high) > 0
  THEN [severity |-> SEVERITY_LEVELS.HIGH, reasons |-> found.high]
  ELSE IF Len(found.medium) > 0
  THEN [severity |-> SEVERITY_LEVELS.MEDIUM, reasons |-> found.medium]
  ELSE IF Len(found.low) > 0
  THEN [severity |-> SEVERITY_LEVELS.LOW, reasons |-> found.low]
  ELSE [severity |-> IF severityHint = "" THEN SEVERITY_LEVELS.LOW ELSE severityHint,
        reasons |-> << "default from source" >>]

\* /^v?(\d+)\.0\.0/.test(version): an optional v, one digit or more, then
\* ".0.0"; whatever follows is not looked at.
majorVersionRegexTest(version) ==
  LET first == IF Len(version) >= 1 /\ CharAt(version, 1) = "v" THEN 2 ELSE 1
  IN  \E n \in 1..Len(version) :
        /\ \A i \in first..(first + n - 1) : i <= Len(version) /\ CharAt(version, i) \in Digits
        /\ first + n + 3 <= Len(version)
        /\ SubSeq(version, first + n, first + n + 3) = ".0.0"

\* A version step that climbs until high.
VersionStepToHigh(current, version) ==
  IF version # "" /\ majorVersionRegexTest(version)
       /\ current.severity \in {SEVERITY_LEVELS.LOW, SEVERITY_LEVELS.MEDIUM}
  THEN [severity |-> SEVERITY_LEVELS.HIGH,
        reasons |-> Append(current.reasons, "major version bump")]
  ELSE current

\* "Version-based adjustments" ("" is no version: if (item.version) fails).
VersionStep(current, version) ==
  IF version # "" /\ majorVersionRegexTest(version)
  THEN IF current.severity = SEVERITY_LEVELS.LOW
       THEN [severity |-> SEVERITY_LEVELS.MEDIUM,
             reasons |-> Append(current.reasons, "major version bump")]
       ELSE IF current.severity = SEVERITY_LEVELS.MEDIUM
       THEN [severity |-> SEVERITY_LEVELS.HIGH,
             reasons |-> Append(current.reasons, "major version bump")]
       ELSE current
  ELSE current

\* A pre-release step that lowers every severity above low.
PrereleaseStepAll(current, prerelease) ==
  IF prerelease /\ current.severity = SEVERITY_LEVELS.CRITICAL
  THEN [severity |-> SEVERITY_LEVELS.HIGH,
        reasons |-> Append(current.reasons, "pre-release (reduced severity)")]
  ELSE IF prerelease /\ current.severity = SEVERITY_LEVELS.HIGH
  THEN [severity |-> SEVERITY_LEVELS.MEDIUM,
        reasons |-> Append(current.reasons, "pre-release (reduced severity)")]
  ELSE IF prerelease /\ current.severity = SEVERITY_LEVELS.MEDIUM
  THEN [severity |-> SEVERITY_LEVELS.LOW,
        reasons |-> Append(current.reasons, "pre-release (reduced severity)")]
  ELSE current

\* "Pre-release check - reduce severity"
PrereleaseStep(current, prerelease) ==
  IF prerelease /\ current.severity = SEVERITY_LEVELS.HIGH
  THEN [severity |-> SEVERITY_LEVELS.MEDIUM,
        reasons |-> Append(current.reasons, "pre-release (reduced severity)")]
  ELSE IF prerelease /\ current.severity = SEVERITY_LEVELS.CRITICAL
  THEN [severity |-> SEVERITY_LEVELS.HIGH,
        reasons |-> Append(current.reasons, "pre-release (reduced severity)")]
  ELSE current

\* A score table that counts from 0.
getSeverityScoreFromZero(severity) ==
  IF severity = SEVERITY_LEVELS.CRITICAL THEN 3
  ELSE IF severity = SEVERITY_LEVELS.HIGH THEN 2
  ELSE IF severity = SEVERITY_LEVELS.MEDIUM THEN 1
  ELSE 0

\* getSeverityScore: scores[severity] || 1
getSeverityScore(severity) ==
  IF severity = SEVERITY_LEVELS.CRITICAL THEN 4
  ELSE IF severity = SEVERITY_LEVELS.HIGH THEN 3
  ELSE IF severity = SEVERITY_LEVELS.MEDIUM THEN 2
  ELSE 1

\* Titles for every combination of tiers that matters: no keyword, one tier
\* each, a critical with a low keyword, a high with a medium one, all four.
SampleTitles ==
  { "Release notes",
    "Beta preview",
    "Bug fix",
    "Deprecated API",
    "Zero-day exploit",
    "CVE-1 note",
    "Breaking: patch",
    "Outage removed patch alpha" }

\* The text scoreItem builds of an item.
TextOf(it) == toLowerCase(it.title \o " " \o it.description)

\* The four forEach loops of scoreItem, worked out once for each text of
\* the model: the matching keywords of every list.
matches ==
  [text \in { TextOf([title |-> t, description |-> ""]) : t \in SampleTitles } |->
     [critical |-> MatchesOf(text, CRITICAL_KEYWORDS),
      high |-> MatchesOf(text, HIGH_KEYWORDS),
      medium |-> MatchesOf(text, MEDIUM_KEYWORDS),
      low |-> MatchesOf(text, LOW_KEYWORDS)]]

\* [...new Set(reasons)]: the first occurrence of each element, in order.
Unique(seq) ==
  LET first == { i \in DOMAIN seq : \A j \in 1..(i - 1) : seq[j] # seq[i] }
      nth(k) == CHOOSE i \in first : Cardinality({ j \in first : j < i }) = k - 1
  IN  [k \in 1..Cardinality(first) |-> seq[nth(k)]]

\* .slice(0, 3)
SliceTo3(seq) == SubSeq(seq, 1, IF Len(seq) < 3 THEN Len(seq) ELSE 3)

\* scoreItem(item, source)
scoreItem(it, src) ==
  LET text == TextOf(it)
      final == PrereleaseStep(VersionStep(Baseline(matches[text], src.severityHint), it.version),
                              it.prerelease)
  IN  [severity |-> final.severity,
       reasons |-> SliceTo3(Unique(final.reasons)),
       score |-> getSeverityScore(final.severity)]

\* The longest item.version, counted in parts.
MaxVersionParts == 4

VersionParts == { "v", "2", ".0", ".1" }

\* The values of item.version: "" (none) and a tag_name of up to n parts.
RECURSIVE VersionsUpTo(_)
VersionsUpTo(n) ==
  IF n = 0 THEN { "" }
  ELSE LET shorter == VersionsUpTo(n - 1)
       IN  shorter \cup { v \o part : v \in shorter, part \in VersionParts }

\* source.severityHint: none, the four levels of the README, and a word
\* that is none of them.
SeverityHints == { "", "critical", "high", "medium", "low", "info" }

ScoreInit ==
  /\ OutsideScoreUnused
  /\ item \in [title : SampleTitles, description : {""},
                version : VersionsUpTo(MaxVersionParts), prerelease : BOOLEAN]
  /\ source \in [severityHint : SeverityHints]
  /\ scoring = NotScored

\* scoreAllItems calls scoreItem(item, source).
ScoreItem ==
  /\ ~scoring.called
  /\ scoring' = [called |-> TRUE, result |-> scoreItem(item, source)]
  /\ UNCHANGED <<item, source, outsideScore>>

ScoreNext == ScoreItem

ScoreSpec == ScoreInit /\ [][ScoreNext]_vars

(***************************************************************************)
(* scorer.js: scoreAllItems                                                 *)
(***************************************************************************)

\* new Date(text).getTime() of a text that is no date: NaN, kept apart from
\* the timestamps (which are positive) as -1.
NaN == -1

\* b - a for timestamps: NaN when either is NaN.
Minus(b, a) == IF a = NaN \/ b = NaN THEN NaN ELSE b - a

\* The sign of what the comparator of scored.sort returns, as sort reads
\* it: a NaN counts as +0.
Compare(a, b) ==
  LET v == IF a.severityScore # b.severityScore
           THEN b.severityScore - a.severityScore
           ELSE Minus(b.publishedAt, a.publishedAt)
  IN  IF a.severityScore = b.severityScore /\ v = NaN THEN 0
      ELSE IF v < 0 THEN -1 ELSE IF v > 0 THEN 1 ELSE 0

\* The comparator is a consistent comparator for these values (ECMA-262,
\* Array.prototype.sort): "equal" and "before" are transitive.
Consistent(seq) ==
  \A i, j, k \in DOMAIN seq :
    /\ Compare(seq[i], seq[j]) = 0 /\ Compare(seq[j], seq[k]) = 0
         => Compare(seq[i], seq[k]) = 0
    /\ Compare(seq[i], seq[j]) < 0 /\ Compare(seq[j], seq[k]) < 0
         => Compare(seq[i], seq[k]) < 0
    /\ Compare(seq[i], seq[j]) > 0 /\ Compare(seq[j], seq[k]) > 0
         => Compare(seq[i], seq[k]) > 0

Arrangements(n) == { f \in [1..n -> 1..n] : \A i, j \in 1..n : f[i] = f[j] => i = j }

\* Array.prototype.sort(comparator): stable, so with a consistent comparator
\* the one arrangement in which equal elements keep their order; with an
\* inconsistent one the order is implementation-defined: any arrangement.
SortOutcomes(seq) ==
  LET n == Len(seq)
      stable == { f \in Arrangements(n) :
                    \A i, j \in 1..n :
                      i < j => \/ Compare(seq[f[i]], seq[f[j]]) < 0
                               \/ Compare(seq[f[i]], seq[f[j]]) = 0 /\ f[i] < f[j] }
      chosen == IF Consistent(seq) THEN stable ELSE Arrangements(n)
  IN  { [i \in 1..n |-> seq[f[i]]] : f \in chosen }

\* sources.find(s => s.id === sourceId): the index of the first source with
\* this id, 0 when there is none.
Find(srcs, sourceId) ==
  IF \E i \in DOMAIN srcs : srcs[i].id = sourceId
  THEN CHOOSE i \in DOMAIN srcs :
         srcs[i].id = sourceId /\ \A j \in 1..(i - 1) : srcs[j].id # sourceId
  ELSE 0

\* The scored item scoreAllItems pushes for an item of a source.
ScoredItem(it, src) ==
  [id |-> it.id, source |-> it.source, title |-> it.title, description |-> it.description,
   version |-> it.version, prerelease |-> it.prerelease, publishedAt |-> it.publishedAt,
   severity |-> scoreItem(it, src).severity,
   severityScore |-> scoreItem(it, src).score,
   severityReasons |-> scoreItem(it, src).reasons,
   category |-> src.category,
   sourceName |-> src.name]

\* The for loop of scoreAllItems over the first n entries of the results:
\* entries of unknown sources are skipped.
RECURSIVE Pushed(_, _, _)
Pushed(results, srcs, n) ==
  IF n = 0 THEN <<>>
  ELSE LET entry == results[n]
           at == Find(srcs, entry.id)
       IN  Pushed(results, srcs, n - 1)
             \o (IF at = 0 THEN <<>>
                 ELSE [i \in DOMAIN entry.items |-> ScoredItem(entry.items[i], srcs[at])])

\* scoreAllItems(sourceResults, sources): what it can return.
scoreAllItems(results, srcs) == SortOutcomes(Pushed(results, srcs, Len(results)))

\* Most items of source A in the results given to scoreAllItems.
MaxItemsPerSource == 2

\* An item as the fetchers build it (rawData left out).
Item(id, sourceId, text, at) ==
  [id |-> id, source |-> sourceId, title |-> text, description |-> "", version |-> "",
   prerelease |-> FALSE, publishedAt |-> at]

\* The lists of up to n items a source can have: a medium or a critical
\* title each, published at 1, at 2, or with a pubDate that is no date.
RECURSIVE ItemLists(_, _)
ItemLists(sourceId, n) ==
  IF n = 0 THEN { <<>> }
  ELSE LET shorter == ItemLists(sourceId, n - 1)
           longest == { l \in shorter : Len(l) = n - 1 }
           nextId == IF n = 1 THEN sourceId \o "1" ELSE sourceId \o "2"
       IN  shorter \cup { Append(l, Item(nextId, sourceId, text, at)) :
                            l \in longest, text \in {"Bug fix", "Zero-day exploit"},
                            at \in {1, 2, NaN} }

\* config.sources: A and B; no source U.
ConfiguredSources ==
  << [id |-> "A", category |-> "infrastructure", name |-> "Source A", severityHint |-> ""],
     [id |-> "B", category |-> "app", name |-> "Source B", severityHint |-> "high"] >>

\* The results scoreAllItems can be given: an entry for A, for B and for a
\* source U that the configuration does not have, in any property order.
ResultsToScore ==
  { [i \in 1..3 |-> entries[f[i]]] :
      f \in Arrangements(3),
      entries \in { << [id |-> "A", items |-> a], [id |-> "B", items |-> b],
                       [id |-> "U", items |-> u] >> :
                     a \in ItemLists("A", MaxItemsPerSource),
                     b \in ItemLists("B", 1),
                     u \in { <<>>, << Item("U1", "U", "Zero-day exploit", 2) >> } } }

ScoreAllInit ==
  /\ OutsideFetchUnused
  /\ concurrency = 0
  /\ served = <<>>
  /\ waveStart = 0
  /\ inFlight = {}
  /\ sourceResults \in ResultsToScore
  /\ fetchPc = "returned"
  /\ configured = ConfiguredSources
  /\ scoredBatch = [done |-> FALSE, items |-> <<>>]

\* Step 3 of main(): scoreAllItems(sourceResults, sources).
ScoreAll ==
  /\ fetchPc = "returned"
  /\ ~scoredBatch.done
  /\ \E out \in scoreAllItems(sourceResults, configured) :
       scoredBatch' = [done |-> TRUE, items |-> out]
  /\ UNCHANGED <<concurrency, served, waveStart, inFlight, sourceResults, fetchPc,
                 configured, outsideFetch>>

ScoreAllNext == ScoreAll

ScoreAllSpec == ScoreAllInit /\ [][ScoreAllNext]_vars

(***************************************************************************)
(* fetchers.js: fetchAllSources and fetchSource                             *)
(***************************************************************************)

\* Widest concurrency fetchAllSources is called with (main() passes 2).
MaxConcurrency == 2

\* The sources of a run, all enabled: A and B as configured above, and C.
EnabledSources ==
  ConfiguredSources
    \o << [id |-> "C", category |-> "sdk", name |-> "Source C", severityHint |-> ""] >>

EnabledIds == { EnabledSources[k].id : k \in DOMAIN EnabledSources }

\* What the retrieval of a source meets: a payload, or one of the failures.
\*   "badLocation":         a redirect whose Location starts with http and is
\*                          no URL: the recursive fetchUrl rejects (new URL in
\*                          the promise executor);
\*   "badRelativeLocation": a redirect whose Location does not start with
\*                          http and is no URL against the request URL: new
\*                          URL(redirectUrl, url) throws in the response
\*                          callback, outside any promise.
Responses ==
  {"ok", "timeout", "status", "noLocation", "badLocation", "badRelativeLocation",
   "oversize", "unparseable"}

\* The responses under which fetchUrl rejects or the payload yields nothing:
\* fetchRSS / fetchGitHub / fetchHTML catch and return [].
CaughtFailures ==
  {"timeout", "status", "noLocation", "badLocation", "oversize", "unparseable"}

\* What each source has when its retrieval succeeds: a1 and b1 of the same
\* severity and date, c1 critical.
FetchedItems ==
  [ id \in EnabledIds |->
      IF id = "A" THEN << Item("A1", "A", "Bug fix", 1) >>
      ELSE IF id = "B" THEN << Item("B1", "B", "Bug fix", 1) >>
      ELSE << Item("C1", "C", "Zero-day exploit", 2) >> ]

\* fetchSource(source) when it settles: the items, [] for a caught failure.
fetchSource(id, response) == IF response \in CaughtFailures THEN <<>> ELSE FetchedItems[id]

\* sources.slice(i, i + concurrency), as ids.
BatchAt(srcs, i, width) ==
  { srcs[k].id : k \in { k \in DOMAIN srcs : i < k /\ k <= i + width } }

FetchInit ==
  /\ OutsideFetchUnused
  /\ concurrency \in 1..MaxConcurrency
  /\ served \in [EnabledIds -> Responses]
  /\ waveStart = 0
  /\ inFlight = {}
  /\ sourceResults = <<>>
  /\ fetchPc = "loop"
  /\ configured = EnabledSources
  /\ scoredBatch = [done |-> FALSE, items |-> <<>>]

\* for (i ...; i < sources.length; ...): batch.map(source => fetchSource(source)...)
StartWave ==
  /\ fetchPc = "loop"
  /\ waveStart < Len(configured)
  /\ inFlight' = BatchAt(configured, waveStart, concurrency)
  /\ fetchPc' = "awaiting"
  /\ UNCHANGED <<concurrency, served, waveStart, sourceResults, configured, scoredBatch,
                 outsideFetch>>

\* A fetchSource promise of the wave settles: results[source.id] = items.
Settle(id) ==
  /\ fetchPc = "awaiting"
  /\ id \in inFlight
  /\ served[id] # "badRelativeLocation"
  /\ sourceResults' = Append(sourceResults, [id |-> id, items |-> fetchSource(id, served[id])])
  /\ inFlight' = inFlight \ {id}
  /\ UNCHANGED <<concurrency, served, waveStart, fetchPc, configured, scoredBatch,
                 outsideFetch>>

\* The response callback of fetchUrl throws: an uncaught exception ends the
\* process.
UncaughtThrow(id) ==
  /\ fetchPc = "awaiting"
  /\ id \in inFlight
  /\ served[id] = "badRelativeLocation"
  /\ fetchPc' = "crashed"
  /\ UNCHANGED <<concurrency, served, waveStart, inFlight, sourceResults, configured,
                 scoredBatch, outsideFetch>>

\* await Promise.all(batchPromises) returns, then the delay and i += concurrency.
WaveDone ==
  /\ fetchPc = "awaiting"
  /\ inFlight = {}
  /\ waveStart' = waveStart + concurrency
  /\ fetchPc' = "loop"
  /\ UNCHANGED <<concurrency, served, inFlight, sourceResults, configured, scoredBatch,
                 outsideFetch>>

\* return results
Return ==
  /\ fetchPc = "loop"
  /\ waveStart >= Len(configured)
  /\ fetchPc' = "returned"
  /\ UNCHANGED <<concurrency, served, waveStart, inFlight, sourceResults, configured,
                 scoredBatch, outsideFetch>>

FetchNext ==
  \/ StartWave
  \/ \E id \in EnabledIds : Settle(id)
  \/ \E id \in EnabledIds : UncaughtThrow(id)
  \/ WaveDone
  \/ Return
  \/ ScoreAll

FetchSpec == FetchInit /\ [][FetchNext]_vars

\* The same with the event loop running what can run: the loop goes on, a
\* pending fetch settles or its response callback runs (fetchUrl's timeout
\* bounds the wait), an await resumes.
FetchLiveSpec ==
  /\ FetchInit
  /\ [][FetchNext]_vars
  /\ WF_vars(StartWave)
  /\ WF_vars(\E id \in EnabledIds : Settle(id))
  /\ WF_vars(\E id \in EnabledIds : UncaughtThrow(id))
  /\ WF_vars(WaveDone)
  /\ WF_vars(Return)

(***************************************************************************)
(* fetchers.js: fetchHTML                                                   *)
(***************************************************************************)

\* Most anchors of a page, most of them that are not the plain anchor, and
\* most ms that pass during the forEach.
MaxAnchors == 6
MaxSpecial == 1
MaxElapsed == 1

\* while (... && links.length < 10), links.slice(0, 5), idx * 86400000
LinkLimit == 10
SliceEnd == 5
DayMs == 86400000

\* source.url is https://site.test/: what new URL(source.url) gives.
Origin == "https://site.test"

RECURSIVE Repeat(_, _)
Repeat(str, n) == IF n = 0 THEN "" ELSE Repeat(str, n - 1) \o str

\* An anchor the link pattern matches: its href (match[1]) and the text of
\* its content with the tags removed and trimmed
\* (match[2].replace(/<[^>]+>/g, '').trim()).
PlainAnchor == [href |-> "https://site.test/a", text |-> "Hello!"]

SpecialAnchors ==
  { [href |-> "https://site.test/b", text |-> "Hello"],
    [href |-> "https://site.test/c", text |-> "123456"],
    [href |-> "#top", text |-> "Hello!"],
    [href |-> "javascript:void(0)", text |-> "Hello!"],
    [href |-> "ftp://[", text |-> "Hello!"],
    [href |-> "https://site.test/e", text |-> ""],
    [href |-> "https://site.test/f", text |-> Repeat("Hello", 40)],
    [href |-> "/g", text |-> Repeat("Hello", 39) \o "Hell"],
    [href |-> "news.html", text |-> "R&amp;D" ] }

\* The pages of n anchors of which at most k are not the plain one.
RECURSIVE PagesOf(_, _)
PagesOf(n, k) ==
  IF n = 0 THEN { <<>> }
  ELSE { Append(page, PlainAnchor) : page \in PagesOf(n - 1, k) }
       \cup IF k = 0 THEN {}
            ELSE { Append(page, a) : page \in PagesOf(n - 1, k - 1), a \in SpecialAnchors }

Pages == UNION { PagesOf(n, MaxSpecial) : n \in 0..MaxAnchors }

\* String.prototype.startsWith
startsWith(str, prefix) ==
  Len(str) >= Len(prefix) /\ SubSeq(str, 1, Len(prefix)) = prefix

\* The references new URL(href, source.url) throws for.
InvalidReferences == { "ftp://[" }

\* The try block of the while loop: the absolute URL of an href, or skip
\* (continue) for a fragment, a javascript link and a reference that is no URL.
absoluteUrl(href) ==
  IF startsWith(href, "http") THEN [skip |-> FALSE, url |-> href]
  ELSE IF startsWith(href, "/") THEN [skip |-> FALSE, url |-> Origin \o href]
  ELSE IF startsWith(href, "#") \/ startsWith(href, "javascript:")
  THEN [skip |-> TRUE, url |-> ""]
  ELSE IF href \in InvalidReferences THEN [skip |-> TRUE, url |-> ""]
  ELSE [skip |-> FALSE, url |-> Origin \o "/" \o href]

\* The table of decodeHTMLEntities.
Entities ==
  << <<"&amp;", "&">>, <<"&lt;", "<">>, <<"&gt;", ">">>, <<"&quot;", "\"">>,
     <<"&#39;", "'">>, <<"&apos;", "'">> >>

\* decodeHTMLEntities(text): each entity of the table replaced, from the left.
RECURSIVE decodeFrom(_, _)
decodeFrom(text, i) ==
  IF i > Len(text) THEN ""
  ELSE LET hits == { e \in DOMAIN Entities : startsWith(SubSeq(text, i, Len(text)), Entities[e][1]) }
       IN  IF hits = {} THEN CharAt(text, i) \o decodeFrom(text, i + 1)
           ELSE LET e == CHOOSE e \in hits : TRUE
                IN  Entities[e][2] \o decodeFrom(text, i + Len(Entities[e][1]))

decodeHTMLEntities(text) == IF Includes(text, "&") THEN decodeFrom(text, 1) ELSE text

\* A length test that takes 5 and 200 too.
lengthInBandInclusive(text) == Len(text) >= 5 /\ Len(text) <= 200

\* if (text.length > 5 && text.length < 200)
lengthInBand(text) == Len(text) > 5 /\ Len(text) < 200

\* One pass of the while loop over an anchor: links after it.
linksAfter(found, anchor) ==
  LET resolved == absoluteUrl(anchor.href)
  IN  IF resolved.skip THEN found
      ELSE IF lengthInBand(anchor.text)
      THEN Append(found, [url |-> resolved.url, text |-> decodeHTMLEntities(anchor.text)])
      ELSE found

\* links.slice(0, 5)
slice5(found) == SubSeq(found, 1, IF Len(found) < SliceEnd THEN Len(found) ELSE SliceEnd)

ScrapeInit ==
  /\ OutsideScrapeUnused
  /\ html \in Pages
  /\ cursor = 0
  /\ links = <<>>
  /\ scrapeNow = 0
  /\ scrapedItems = <<>>
  /\ scrapePc = "matching"

\* while ((match = linkRegex.exec(html)) !== null && links.length < 10) { ... }
ExtractLink ==
  /\ scrapePc = "matching"
  /\ cursor < Len(html)
  /\ Len(links) < LinkLimit
  /\ cursor' = cursor + 1
  /\ links' = linksAfter(links, html[cursor + 1])
  /\ UNCHANGED <<html, scrapeNow, scrapedItems, scrapePc, outsideScrape>>

\* The while loop ends.
LinksDone ==
  /\ scrapePc = "matching"
  /\ cursor >= Len(html) \/ Len(links) >= LinkLimit
  /\ scrapePc' = "building"
  /\ UNCHANGED <<html, cursor, links, scrapeNow, scrapedItems, outsideScrape>>

\* links.slice(0, 5).forEach((link, idx) => items.push({...})): one link.
\* Date.now() is read for each; the clock does not go back.
PushItem ==
  /\ scrapePc = "building"
  /\ Len(scrapedItems) < Len(slice5(links))
  /\ \E now \in scrapeNow..(IF scrapeNow < MaxElapsed THEN scrapeNow + 1 ELSE scrapeNow) :
       LET idx == Len(scrapedItems)
           link == slice5(links)[idx + 1]
       IN  /\ scrapeNow' = now
           /\ scrapedItems' = Append(scrapedItems,
                                     [title |-> link.text, url |-> link.url,
                                      publishedAt |-> now - idx * DayMs, source |-> "H"])
  /\ UNCHANGED <<html, cursor, links, scrapePc, outsideScrape>>

\* return items
ReturnItems ==
  /\ scrapePc = "building"
  /\ Len(scrapedItems) = Len(slice5(links))
  /\ scrapePc' = "returned"
  /\ UNCHANGED <<html, cursor, links, scrapeNow, scrapedItems, outsideScrape>>

ScrapeNext == ExtractLink \/ LinksDone \/ PushItem \/ ReturnItems

ScrapeSpec == ScrapeInit /\ [][ScrapeNext]_vars

(***************************************************************************)
(* Properties                                                               *)
(***************************************************************************)

\* Step 4 of this run has been carried out and did not throw.
DiffDone == loadedFrom # "none" /\ failure # "diff"

\* The positions of `items` whose id is not in `seen`.
KeptPositions(items, seen) == { i \in DOMAIN items : items[i].id \notin seen }

\* `out` is `items` restricted to the ids outside `seen`: the kept positions
\* in increasing order, nothing added, dropped, duplicated or reordered.
IsRestriction(out, items, seen) ==
  LET keep == KeptPositions(items, seen)
  IN  /\ Len(out) = Cardinality(keep)
      /\ \A j \in DOMAIN out :
           \E i \in keep :
             /\ Cardinality({ k \in keep : k < i }) = j - 1
             /\ out[j] = items[i]

\* The state loadState returned is a WatermarkState: an object with a
\* sources mapping.
WellFormed(state) == state.t = "object" /\ state.hasSources

\* C1: when the previous state is an initialized WatermarkState, getNewItems
\* answers isFirstRun = false and newItems is exactly the items of the batch
\* whose id is in no source's seenIds, in the order of the batch.
C1_DiffCorrect ==
  (/\ loadedFrom # "none"
   /\ ~forceNotify
   /\ WellFormed(previousState)
   /\ previousState.initialized = "true")
  => /\ DiffDone
     /\ isFirstRun = FALSE
     /\ IsRestriction(newItems, scoredItems, SeenIdsOf(previousState))

\* C1 happens: a diff against an initialized state keeps one item and drops another.
C1_Witness ==
  /\ DiffDone
  /\ ~forceNotify
  /\ previousState.initialized = "true"
  /\ Len(previousState.sources) = 2
  /\ Len(scoredItems) = 2
  /\ Len(newItems) = 1

\* C2: when the previous state's initialized flag is false, getNewItems
\* answers newItems = [] and isFirstRun = true, whatever the batch and
\* whatever seenIds the state holds.
C2_FirstRunSuppressed ==
  (/\ loadedFrom # "none"
   /\ ~forceNotify
   /\ previousState.t = "object"
   /\ previousState.initialized = "false")
  => /\ DiffDone
     /\ isFirstRun = TRUE
     /\ newItems = <<>>

\* C2 happens: an uninitialized state that lists x1 as seen, and a batch with x1 and x2.
C2_Witness ==
  /\ DiffDone
  /\ ~forceNotify
  /\ previousState.initialized = "false"
  /\ SeenIdsOf(previousState) = {"x1"}
  /\ IdsOf(scoredItems) = {"x1", "x2"}
  /\ isFirstRun

\* C2 happens for the empty batch too.
C2_WitnessEmpty ==
  /\ DiffDone /\ ~forceNotify /\ previousState.initialized = "false"
  /\ scoredItems = <<>> /\ isFirstRun

\* C3: once saveState(updateState(B)) has returned, loadState() gives an
\* initialized state against which getNewItems(B, .) finds nothing new:
\* every id of B is among the persisted seenIds.
C3_RoundTrip ==
  saved =>
    LET loaded == loadState(stateFile)
        again == getNewItems(scoredItems, loaded)
    IN  /\ loaded.initialized = "true"
        /\ ~again.threw
        /\ again.isFirstRun = FALSE
        /\ again.newItems = <<>>
        /\ IdsOf(scoredItems) \subseteq SeenIdsOf(loaded)

\* C3 happens: a batch of two sources has been saved.
C3_Witness ==
  /\ saved
  /\ Len(scoredItems) = 2
  /\ scoredItems[1].source # scoredItems[2].source
  /\ scoredItems[1].id # scoredItems[2].id

\* C4: from an absent store and without FORCE_NOTIFY, the first run is a
\* first run with no new items, and every run after a completed run is not
\* a first run and reports exactly the items of its batch whose id was not
\* in the batch of the run before.
C4_EndToEnd ==
  /\ (lastOutcome = "none" /\ loadedFrom = "absent" /\ ~forceNotify)
       => (DiffDone /\ isFirstRun = TRUE /\ newItems = <<>>)
  /\ (lastOutcome = "completed" /\ loadedFrom # "none" /\ ~forceNotify)
       => /\ DiffDone
          /\ isFirstRun = FALSE
          /\ IsRestriction(newItems, scoredItems, lastIds)

\* C4 happens: the run before had x1 only, this one has x1 and x2, so x2 alone is new.
C4_Witness ==
  /\ lastOutcome = "completed"
  /\ ~forceNotify
  /\ DiffDone
  /\ lastIds = {"x1"}
  /\ Len(scoredItems) = 2
  /\ scoredItems[1].id = "x1"
  /\ Len(newItems) = 1
  /\ newItems[1].id = "x2"

\* C4 happens: the first run from an absent store, with a batch.
C4_WitnessFirst ==
  /\ lastOutcome = "none" /\ loadedFrom = "absent" /\ ~forceNotify
  /\ scoredItems # <<>> /\ isFirstRun /\ pc = "done"

\* The previous run persisted its snapshot (it completed, or only its delivery failed).
LastPersisted == lastOutcome \in {"completed", "undelivered"}

\* C5: the persisted snapshot holds the ids of this run's batch and no
\* other; so an item that the run before the previous one persisted, that
\* the previous run's batch lacked, and that is in this run's batch, is in
\* this run's newItems.
C5_NotCumulative ==
  /\ saved => SeenIdsOf(loadState(stateFile)) = IdsOf(scoredItems)
  /\ (LastPersisted /\ loadedFrom # "none")
       => /\ DiffDone
          /\ \A i \in DOMAIN scoredItems :
               scoredItems[i].id \in (prevIds \ lastIds)
                 => scoredItems[i] \in Range(newItems)

\* C5 happens: x2 was persisted two runs ago, was missing from the previous
\* run's batch, is back, and is reported (without FORCE_NOTIFY).
C5_Witness ==
  /\ LastPersisted
  /\ ~forceNotify
  /\ DiffDone
  /\ saved
  /\ "x2" \in prevIds
  /\ "x2" \notin lastIds
  /\ \E i \in DOMAIN newItems : newItems[i].id = "x2"

C7_LoadNeverFatal == failure # "diff"

C9_NoDiffNoNotification ==
  (/\ lastOutcome = "completed"
   /\ DiffDone
   /\ ~forceNotify
   /\ isFirstRun = FALSE
   /\ newItems = <<>>)
  => sendCalls = 0

\* C10 as claimed: the snapshot is persisted before delivery is attempted,
\* a failed delivery leaves it in place, and an item the previous run failed
\* to deliver is not among this run's newItems.
C10_AsClaimed ==
  /\ sendCalls > 0
       => (saved /\ stateFile = JSONstringify(updateState(scoredItems)))
  /\ (lastOutcome = "undelivered" /\ DiffDone)
       => \A i \in DOMAIN newItems : newItems[i].id \notin lastUndelivered

\* C10 as amended: the same, the last part for runs without FORCE_NOTIFY.
C10_PersistBeforeDelivery ==
  /\ sendCalls > 0
       => /\ saved
          /\ stateFile = JSONstringify(updateState(scoredItems))
          /\ SeenIdsOf(loadState(stateFile)) = IdsOf(scoredItems)
  /\ (lastOutcome = "undelivered" /\ loadedFrom # "none" /\ ~forceNotify)
       => /\ DiffDone
          /\ \A i \in DOMAIN newItems : newItems[i].id \notin lastUndelivered

\* C10 happens: x1 was not delivered by the previous run, is in this run's
\* batch with x2, and only x2 is new.
C10_Witness ==
  /\ lastOutcome = "undelivered"
  /\ ~forceNotify
  /\ DiffDone
  /\ lastUndelivered = {"x1"}
  /\ IdsOf(scoredItems) = {"x1", "x2"}
  /\ IdsOf(newItems) = {"x2"}

\* C10 happens: a delivery has failed and the file holds this run's snapshot.
C10_WitnessFailed ==
  /\ failure = "send"
  /\ scoredItems # <<>>
  /\ SeenIdsOf(loadState(stateFile)) = IdsOf(scoredItems)

ConfigFatal == configFile \in {"absent", "unparseable", "notAList"}

Budget == IF maxRedirectsOption.set THEN maxRedirectsOption.n ELSE DefaultMaxRedirects

\* C13: for every configured maxRedirects n >= 0 (5 when not given), a chain of k
\* redirects ending in a 200 resolves iff k <= n and is refused with 'Too many
\* redirects' when k > n, a cyclic chain is always refused, and fetchUrl never
\* issues more than n + 1 requests.  (Violated for n = 0, which
\* options.maxRedirects || 5 reads as 5.)
C13_RedirectBudget ==
  /\ requests <= Budget + 1
  /\ urlPc = "resolved" => ~chain.cyclic /\ chain.length <= Budget
  /\ urlPc = "tooMany" => chain.cyclic \/ chain.length > Budget

\* The keyword occurs in the title as whole words: letter case aside, it
\* stands there with no word character (letter, digit, underscore) directly
\* before it and none directly after it.
OccursAsWholeWords(text, phrase) ==
  LET padded == " " \o toLowerCase(text) \o " "
      n == Len(phrase)
  IN  \E i \in 1..(Len(padded) - n - 1) :
        /\ CharAt(padded, i) \notin WordChars
        /\ SubSeq(padded, i + 1, i + n) = phrase
        /\ CharAt(padded, i + n + 1) \notin WordChars

\* C20: a keyword without hyphen or colon matches a title exactly when it
\* occurs there as whole words, never as a fragment of a longer word; a
\* keyword with a hyphen or a colon matches exactly when the title contains
\* it, letter case aside.
C20_WordBoundarySafe ==
  matched \in {"yes", "no"}
  => (matched = "yes"
      <=> IF \E i \in 1..Len(keyword) : CharAt(keyword, i) \in {"-", ":"}
          THEN Includes(toLowerCase(title), keyword)
          ELSE OccursAsWholeWords(title, keyword))

\* C20 happens: 'note' is refused in a title that holds it inside a longer
\* word ("keyNotes").
C20_Witness ==
  /\ keyword = "note"
  /\ title = "keyNotes"
  /\ matched = "no"

\* C20 happens: 'cve-' is found in "CVE-" by containment, capitals and all.
C20_WitnessHyphen ==
  /\ keyword = "cve-"
  /\ title = "CVE-key"
  /\ matched = "yes"

\* C20 happens: 'bug fix' is found between a hyphen and the end of the title.
C20_WitnessPhrase ==
  /\ keyword = "bug fix"
  /\ title = "s-Bug fix"
  /\ matched = "yes"

\* The four tiers and their rank.
Tiers == {"critical", "high", "medium", "low"}

TierRank == [t \in Tiers |-> IF t = "critical" THEN 4 ELSE IF t = "high" THEN 3
                              ELSE IF t = "medium" THEN 2 ELSE 1]

\* The tiers that have a keyword in each title, read off the keyword lists
\* by hand ('notes' is not the word 'note').
TiersIn(t) ==
  IF t = "Release notes" THEN {}
  ELSE IF t = "Beta preview" THEN {"low"}
  ELSE IF t = "Bug fix" THEN {"medium"}
  ELSE IF t = "Deprecated API" THEN {"high"}
  ELSE IF t = "Zero-day exploit" THEN {"critical"}
  ELSE IF t = "CVE-1 note" THEN {"critical", "low"}
  ELSE IF t = "Breaking: patch" THEN {"high", "medium"}
  ELSE Tiers

\* The severity before the version and pre-release steps: the highest tier
\* with a keyword in the title, else the hint, else low.
BaselineOf(it, src) ==
  IF TiersIn(it.title) # {}
  THEN CHOOSE t \in TiersIn(it.title) : \A u \in TiersIn(it.title) : TierRank[t] >= TierRank[u]
  ELSE IF src.severityHint = "" THEN "low" ELSE src.severityHint

\* One tier up, at most to high; one tier down from critical or high.
OneUpToHigh(severity) ==
  IF severity = "low" THEN "medium" ELSE IF severity = "medium" THEN "high" ELSE severity

OneDownFromTop(severity) ==
  IF severity = "critical" THEN "high" ELSE IF severity = "high" THEN "medium" ELSE severity

\* C15: an item with no version and prerelease false gets the highest tier
\* that has a matching keyword, whatever lower tiers match too; with no
\* keyword at all it gets the source's severityHint, low if there is none,
\* and the single reason 'default from source'.
C15_TierPrecedence ==
  (scoring.called /\ item.version = "" /\ ~item.prerelease)
  => /\ scoring.result.severity = BaselineOf(item, source)
     /\ TiersIn(item.title) # {}
          => \A t \in TiersIn(item.title) :
               TierRank[scoring.result.severity] >= TierRank[t]
     /\ TiersIn(item.title) = {}
          => scoring.result.reasons = << "default from source" >>

\* C15 happens: a title with a critical and a low keyword is scored critical.
C15_Witness ==
  /\ scoring.called
  /\ item.title = "CVE-1 note" /\ item.version = "" /\ ~item.prerelease
  /\ scoring.result.severity = "critical"

\* C15 happens: nothing matches and the hint decides.
C15_WitnessHint ==
  /\ scoring.called
  /\ item.title = "Release notes" /\ item.version = "" /\ ~item.prerelease
  /\ source.severityHint = "high"
  /\ scoring.result.severity = "high"
  /\ scoring.result.reasons = << "default from source" >>

\* The version is vMAJOR.0.0 and nothing else: an optional v, digits, ".0.0".
IsMajorRelease(version) ==
  LET digitsFrom == IF Len(version) >= 1 /\ CharAt(version, 1) = "v" THEN 2 ELSE 1
      digitsTo == Len(version) - 4
  IN  /\ digitsTo >= digitsFrom
      /\ \A i \in digitsFrom..digitsTo : CharAt(version, i) \in Digits
      /\ SubSeq(version, digitsTo + 1, Len(version)) = ".0.0"

\* The version begins with vMAJOR.0.0; anything may follow.
BeginsWithMajorRelease(version) ==
  \E k \in 1..Len(version) : IsMajorRelease(SubSeq(version, 1, k))

C17_PrereleaseDeescalation ==
  (scoring.called /\ item.prerelease)
  => LET base == BaselineOf(item, source)
         afterVersion == IF BeginsWithMajorRelease(item.version)
                         THEN OneUpToHigh(base) ELSE base
     IN  /\ scoring.result.severity = OneDownFromTop(afterVersion)
         /\ base \in Tiers
              => /\ scoring.result.severity \in Tiers
                 /\ TierRank[scoring.result.severity] - TierRank[base] \in {-1, 0, 1}

\* C17 happens: a medium baseline, a major version and a pre-release end at
\* medium, with both steps among the reasons.
C17_Witness ==
  /\ scoring.called
  /\ item.title = "Bug fix" /\ item.version = "v2.0.0" /\ item.prerelease
  /\ scoring.result.severity = "medium"
  /\ scoring.result.reasons = << "bug fix", "major version bump", "pre-release (reduced severity)" >>

\* C17 happens: a critical keyword in a pre-release scores high.
C17_WitnessCritical ==
  /\ scoring.called
  /\ item.title = "Zero-day exploit" /\ item.prerelease
  /\ scoring.result.severity = "high"

\* C18 as claimed: whatever the item and the source descriptor, the severity
\* is one of the four tiers and the score is its rank 4/3/2/1.
C18_AsClaimed ==
  scoring.called
  => /\ scoring.result.severity \in Tiers
     /\ scoring.result.score = TierRank[scoring.result.severity]

\* C18: for every item and every source descriptor whose severityHint is
\* unset or one of the four tiers, the severity is one of the four tiers and
\* the score is its rank: critical 4, high 3, medium 2, low 1.
C18_SeverityAndScore ==
  (scoring.called /\ source.severityHint \in Tiers \cup {""})
  => /\ scoring.result.severity \in Tiers
     /\ scoring.result.score = TierRank[scoring.result.severity]

\* C18 happens: a hinted critical scores 4.
C18_Witness ==
  /\ scoring.called
  /\ item.title = "Release notes" /\ source.severityHint = "critical"
  /\ scoring.result.severity = "critical" /\ scoring.result.score = 4

\* The items of the results that belong to a configured source.
ItemsOfConfigured ==
  UNION { Range(sourceResults[e].items) :
            e \in { e \in DOMAIN sourceResults :
                      \E c \in DOMAIN configured : configured[c].id = sourceResults[e].id } }

\* The item a scored item was made from.
Unscored(scored) ==
  [id |-> scored.id, source |-> scored.source, title |-> scored.title,
   description |-> scored.description, version |-> scored.version,
   prerelease |-> scored.prerelease, publishedAt |-> scored.publishedAt]

\* a >= b for timestamps as JavaScript has it: false when either is NaN.
AtLeast(a, b) == a # NaN /\ b # NaN /\ a >= b

\* C19: scoreAllItems returns exactly the items of the configured sources,
\* each once, each with the category and the name of its own source, and in
\* an order in which every item has a severityScore at least that of the
\* next and, when the two are equal, a publishedAt at least that of the next.
C19_ExactAndSorted ==
  scoredBatch.done
  => LET out == scoredBatch.items
     IN  /\ { Unscored(out[i]) : i \in DOMAIN out } = ItemsOfConfigured
         /\ Len(out) = Cardinality(ItemsOfConfigured)
         /\ \A i \in DOMAIN out :
              \E c \in DOMAIN configured :
                /\ configured[c].id = out[i].source
                /\ out[i].category = configured[c].category
                /\ out[i].sourceName = configured[c].name
         /\ \A i \in 1..(Len(out) - 1) :
              /\ out[i].severityScore >= out[i + 1].severityScore
              /\ out[i].severityScore = out[i + 1].severityScore
                   => AtLeast(out[i].publishedAt, out[i + 1].publishedAt)

\* C12: no failure of a retrieval ends the process; when fetchAllSources
\* returns, a source whose retrieval failed has an empty list and every other
\* source has its own items.
C12_NoFailureAborts ==
  /\ fetchPc # "crashed"
  /\ fetchPc = "returned"
       => \A id \in EnabledIds :
            \E e \in DOMAIN sourceResults :
              /\ sourceResults[e].id = id
              /\ sourceResults[e].items = IF served[id] = "ok" THEN FetchedItems[id] ELSE <<>>

\* The results with the entries in the order of the sources: what
\* fetchAllSources returns when each fetch settles before the next starts.
InSourceOrder ==
  [k \in DOMAIN configured |->
     [id |-> configured[k].id, items |-> fetchSource(configured[k].id, served[configured[k].id])]]

\* A previous state that is initialized and has seen nothing.
NothingSeen == [t |-> "object", initialized |-> "true", hasSources |-> TRUE, sources |-> <<>>]

\* C14: the scored batch, the new items and the snapshot of a run are those
\* of the run in which the fetches settle one after the other in the order
\* of the sources, whatever the order of completion and the width.
C14_OrderIndependent ==
  scoredBatch.done
  => \A reference \in scoreAllItems(InSourceOrder, configured) :
       /\ scoredBatch.items = reference
       /\ getNewItems(scoredBatch.items, NothingSeen).newItems
            = getNewItems(reference, NothingSeen).newItems
       /\ updateState(scoredBatch.items) = updateState(reference)

\* The text has a letter: it is not purely numeric or symbolic.
HasLetter(text) ==
  \E i \in 1..Len(text) : CharAt(text, i) \in UpperLetters \cup Range(LowerCase)

\* An anchor survives as the claim has it: by its visible text alone.
SurvivesByText(anchor) ==
  /\ anchor.text # ""
  /\ HasLetter(anchor.text)
  /\ Len(anchor.text) >= 5 /\ Len(anchor.text) <= 200

\* An anchor survives as fetchHTML has it: its href is neither a fragment nor
\* a javascript link and resolves to a URL, and its text has 6 to 199 characters.
SurvivesInCode(anchor) ==
  /\ ~absoluteUrl(anchor.href).skip
  /\ Len(anchor.text) \in 6..199

\* The items are the first 5 of the given anchors, in that order, and their
\* publishedAt falls strictly from each to the next.
FirstFiveOf(anchors) ==
  /\ Len(scrapedItems) = (IF Len(anchors) < 5 THEN Len(anchors) ELSE 5)
  /\ \A i \in DOMAIN scrapedItems :
       /\ i <= Len(anchors)
       /\ scrapedItems[i].title = decodeHTMLEntities(anchors[i].text)
  /\ \A i \in 1..(Len(scrapedItems) - 1) :
       scrapedItems[i].publishedAt > scrapedItems[i + 1].publishedAt

C21_WitnessBand ==
  /\ scrapePc = "returned"
  /\ \E i \in DOMAIN html : Len(html[i].text) = 200
  /\ Len(scrapedItems) = Len(html) - 1
  /\ Len(scrapedItems) > 0

\* A page with a purely numeric text, which is returned.
C21_WitnessNumeric ==
  /\ scrapePc = "returned"
  /\ \E i \in DOMAIN scrapedItems : scrapedItems[i].title = "123456"

\* The ids fetchAllSources has a result entry for.
ResultIds == { sourceResults[e].id : e \in DOMAIN sourceResults }

\* At most c fetches are in flight.
AtMostWidth == Cardinality(inFlight) <= concurrency

\* A fetch starts only when none is in flight, for a source that has no
\* result yet; a settled fetch adds one entry, for a source without one.
WaveByWave ==
  /\ inFlight' \ inFlight # {} => inFlight = {} /\ inFlight' \cap ResultIds = {}
  /\ Len(sourceResults') > Len(sourceResults)
       => /\ Len(sourceResults') = Len(sourceResults) + 1
          /\ sourceResults'[Len(sourceResults')].id \in inFlight \ ResultIds

\* fetchAllSources has returned, with one entry for every source.
ReturnedAll ==
  /\ fetchPc \in {"returned"}
  /\ ResultIds = EnabledIds
  /\ Len(sourceResults) = Cardinality(EnabledIds)

\* C22: at most c fetches are in flight at any moment, no fetch of a wave
\* starts before every fetch of the wave before has settled, every source
\* is fetched exactly once, and the call returns with an entry for every
\* source.
C22_BoundedWaves ==
  /\ []AtMostWidth
  /\ [][WaveByWave]_vars
  /\ <>ReturnedAll

\* The cache file holds the snapshot of this run's batch, in which no
\* delivery setting occurs.
SnapshotOfBatch == saved /\ stateFile = JSONstringify(updateState(scoredItems))

\* No item that was new in this run is new to a run that finds the cache
\* file as it is now, has the batch `next` and has FORCE_NOTIFY as `force`.
NotNewAgain(next, force) ==
  \A i \in DOMAIN CheckCache(next, stateFile, force).newItems :
    CheckCache(next, stateFile, force).newItems[i].id \notin IdsOf(newItems)

\* From the return of main() to step 4 of the next run nothing writes the
\* cache file.
FileKeptBetweenRuns == stateFile' # stateFile => pc = "fetching"

\* C23 as claimed: a completed run has persisted the snapshot of its batch
\* whatever DRY_RUN, FORCE_NOTIFY and SLACK_WEBHOOK_URL are, and the items
\* that were new in a dry run are not new in the next run.
C23_AsClaimed ==
  /\ [](pc = "done" => SnapshotOfBatch)
  /\ [](pc = "done" /\ dryRun
         => \A next \in Batches, force \in BOOLEAN : NotNewAgain(next, force))
  /\ [][FileKeptBetweenRuns]_vars

\* C23 as amended: the same, the last part for a next run without
\* FORCE_NOTIFY.
C23_WatermarkWhateverDelivery ==
  /\ [](pc = "done" => SnapshotOfBatch)
  /\ [](pc = "done" /\ dryRun => \A next \in Batches : NotNewAgain(next, FALSE))
  /\ [][FileKeptBetweenRuns]_vars

\* C23 happens: a dry run with a webhook set has completed with a new item.
C23_Witness ==
  /\ pc = "done"
  /\ dryRun /\ webhookUrl /\ ~forceNotify
  /\ saved
  /\ ~isFirstRun
  /\ newItems # <<>>

\* C23 happens: a run with FORCE_NOTIFY and no webhook has completed.
C23_WitnessForced ==
  /\ pc = "done"
  /\ forceNotify /\ ~webhookUrl /\ ~dryRun
  /\ saved
  /\ scoredItems # <<>>

====
